---- MODULE Spec2Model ----
(***************************************************************************)
(* Model of the forwarding proxy of src/relay.py: the handler              *)
(* proxy(endpoint, request) of POST /proxy/{endpoint}, its body            *)
(* transformation, its single outbound POST and its response translation.  *)
(*                                                                         *)
(* Bytes are sequences of 0..255, Python str values are sequences of       *)
(* Unicode code points, and a JSON value (what json.loads returns, what a  *)
(* handler returns) is a pair <<tag, payload>>:                            *)
(*   <<"null", <<>>>>   <<"bool", <<0 or 1>>>>   <<"int", <<n>>>>          *)
(*   <<"str", code points>>   <<"arr", <<v1, ..., vn>>>>                   *)
(*   <<"obj", << <<key1, v1>>, ..., <<keyn, vn>> >>>>  (a dict, in         *)
(*   insertion order, keys distinct).                                      *)
(* The JSON scanner covers the grammar the inbound and upstream bodies     *)
(* below exercise: objects, arrays, strings with escapes, integers, true,  *)
(* false, null and whitespace. Floats, NaN and Infinity are not in any     *)
(* body and are not scanned.                                               *)
(***************************************************************************)
EXTENDS Integers, Sequences, FiniteSets, TLC

\* ---- text constants (sequences of Unicode code points) ----
\* "function_call"
K_function_call ==
    <<102, 117, 110, 99, 116, 105, 111, 110, 95, 99, 97, 108, 108>>

\* "name"
K_name ==
    <<110, 97, 109, 101>>

\* "parameters"
K_parameters ==
    <<112, 97, 114, 97, 109, 101, 116, 101, 114, 115>>

\* "error"
K_error ==
    <<101, 114, 114, 111, 114>>

\* "status"
K_status ==
    <<115, 116, 97, 116, 117, 115>>

\* "response"
K_response ==
    <<114, 101, 115, 112, 111, 110, 115, 101>>

\* "/"
S_slash ==
    <<47>>

\* "http://localhost:8000/mcp"
UPSTREAM_default ==
    <<104, 116, 116, 112, 58, 47, 47, 108, 111, 99, 97, 108, 104, 111, 115,
      116, 58, 56, 48, 48, 48, 47, 109, 99, 112>>

\* "instabids"
AUTH_user ==
    <<105, 110, 115, 116, 97, 98, 105, 100, 115>>

\* "secure123password"
AUTH_password ==
    <<115, 101, 99, 117, 114, 101, 49, 50, 51, 112, 97, 115, 115, 119, 111,
      114, 100>>

\* "Content-Type"
H_content_type ==
    <<67, 111, 110, 116, 101, 110, 116, 45, 84, 121, 112, 101>>

\* "application/json"
H_application_json ==
    <<97, 112, 112, 108, 105, 99, 97, 116, 105, 111, 110, 47, 106, 115,
      111, 110>>

\* "query"
Ep_query ==
    <<113, 117, 101, 114, 121>>

\* "list_tables"
Ep_list_tables ==
    <<108, 105, 115, 116, 95, 116, 97, 98, 108, 101, 115>>

\* "v1/query"
Ep_nested ==
    <<118, 49, 47, 113, 117, 101, 114, 121>>

\* The Msg_ texts stand for str(e) of the exceptions below; their wording is
\* the raising library's and only their passage into the result is modelled.
\* "All connection attempts failed"
Msg_connect ==
    <<65, 108, 108, 32, 99, 111, 110, 110, 101, 99, 116, 105, 111, 110, 32,
      97, 116, 116, 101, 109, 112, 116, 115, 32, 102, 97, 105, 108, 101, 100>>

\* "timed out"
Msg_timeout ==
    <<116, 105, 109, 101, 100, 32, 111, 117, 116>>

\* "Server disconnected"
Msg_protocol ==
    <<83, 101, 114, 118, 101, 114, 32, 100, 105, 115, 99, 111, 110, 110,
      101, 99, 116, 101, 100>>

\* "invalid start byte"
Msg_decode ==
    <<105, 110, 118, 97, 108, 105, 100, 32, 115, 116, 97, 114, 116, 32, 98,
      121, 116, 101>>

\* "not iterable"
Msg_type ==
    <<110, 111, 116, 32, 105, 116, 101, 114, 97, 98, 108, 101>>

\* "indices must be integers"
Msg_index ==
    <<105, 110, 100, 105, 99, 101, 115, 32, 109, 117, 115, 116, 32, 98,
      101, 32, 105, 110, 116, 101, 103, 101, 114, 115>>

\* "no attribute get"
Msg_attr ==
    <<110, 111, 32, 97, 116, 116, 114, 105, 98, 117, 116, 101, 32, 103,
      101, 116>>

\* ---- inbound bodies (byte sequences) ----
\* b''
B_empty ==
    <<>>

\* b'not json'
B_text ==
    <<110, 111, 116, 32, 106, 115, 111, 110>>

\* b'\xff'
B_bad_utf8 ==
    <<255>>

\* b'caf\xc3\xa9'
B_text_utf8 ==
    <<99, 97, 102, 195, 169>>

\* b'{"a":1,}'
B_trailing_comma ==
    <<123, 34, 97, 34, 58, 49, 44, 125>>

\* b'{"a":1}'
B_obj ==
    <<123, 34, 97, 34, 58, 49, 125>>

\* b' {"a" : 1}\n'
B_obj_ws ==
    <<32, 123, 34, 97, 34, 32, 58, 32, 49, 125, 10>>

\* b'[1,2]'
B_arr ==
    <<91, 49, 44, 50, 93>>

\* b'"hi"'
B_str ==
    <<34, 104, 105, 34>>

\* b'5'
B_num ==
    <<53>>

\* b'true'
B_true ==
    <<116, 114, 117, 101>>

\* b'null'
B_null ==
    <<110, 117, 108, 108>>

\* b'["function_call"]'
B_arr_fc ==
    <<91, 34, 102, 117, 110, 99, 116, 105, 111, 110, 95, 99, 97, 108, 108,
      34, 93>>

\* b'"a function_call"'
B_str_fc ==
    <<34, 97, 32, 102, 117, 110, 99, 116, 105, 111, 110, 95, 99, 97, 108,
      108, 34>>

\* b'{"function_call":{"name":"query","parameters":{"sql":"SELECT 1"}}}'
B_env_query ==
    <<123, 34, 102, 117, 110, 99, 116, 105, 111, 110, 95, 99, 97, 108, 108,
      34, 58, 123, 34, 110, 97, 109, 101, 34, 58, 34, 113, 117, 101, 114,
      121, 34, 44, 34, 112, 97, 114, 97, 109, 101, 116, 101, 114, 115, 34,
      58, 123, 34, 115, 113, 108, 34, 58, 34, 83, 69, 76, 69, 67, 84, 32,
      49, 34, 125, 125, 125>>

\* b'{"function_call":{"name":"other","parameters":{"sql":"SELECT 1"}}}'
B_env_other ==
    <<123, 34, 102, 117, 110, 99, 116, 105, 111, 110, 95, 99, 97, 108, 108,
      34, 58, 123, 34, 110, 97, 109, 101, 34, 58, 34, 111, 116, 104, 101,
      114, 34, 44, 34, 112, 97, 114, 97, 109, 101, 116, 101, 114, 115, 34,
      58, 123, 34, 115, 113, 108, 34, 58, 34, 83, 69, 76, 69, 67, 84, 32,
      49, 34, 125, 125, 125>>

\* b'{"function_call":{"name":"list_tables","parameters":{}}}'
B_env_list ==
    <<123, 34, 102, 117, 110, 99, 116, 105, 111, 110, 95, 99, 97, 108, 108,
      34, 58, 123, 34, 110, 97, 109, 101, 34, 58, 34, 108, 105, 115, 116,
      95, 116, 97, 98, 108, 101, 115, 34, 44, 34, 112, 97, 114, 97, 109,
      101, 116, 101, 114, 115, 34, 58, 123, 125, 125, 125>>

\* b'{"function_call":{"name":"query"}}'
B_env_noparams ==
    <<123, 34, 102, 117, 110, 99, 116, 105, 111, 110, 95, 99, 97, 108, 108,
      34, 58, 123, 34, 110, 97, 109, 101, 34, 58, 34, 113, 117, 101, 114,
      121, 34, 125, 125>>

\* b'{"function_call":{}}'
B_env_empty ==
    <<123, 34, 102, 117, 110, 99, 116, 105, 111, 110, 95, 99, 97, 108, 108,
      34, 58, 123, 125, 125>>

\* b'{"function_call":{"parameters":null}}'
B_env_null_params ==
    <<123, 34, 102, 117, 110, 99, 116, 105, 111, 110, 95, 99, 97, 108, 108,
      34, 58, 123, 34, 112, 97, 114, 97, 109, 101, 116, 101, 114, 115, 34,
      58, 110, 117, 108, 108, 125, 125>>

\* b'{"function_call":{"parameters":["\xc3\xa9",true,-7]}}'
B_env_arr_params ==
    <<123, 34, 102, 117, 110, 99, 116, 105, 111, 110, 95, 99, 97, 108, 108,
      34, 58, 123, 34, 112, 97, 114, 97, 109, 101, 116, 101, 114, 115, 34,
      58, 91, 34, 195, 169, 34, 44, 116, 114, 117, 101, 44, 45, 55, 93,
      125, 125>>

\* b'{"function_call":5}'
B_env_num ==
    <<123, 34, 102, 117, 110, 99, 116, 105, 111, 110, 95, 99, 97, 108, 108,
      34, 58, 53, 125>>

\* b'{"function_call":null}'
B_env_null ==
    <<123, 34, 102, 117, 110, 99, 116, 105, 111, 110, 95, 99, 97, 108, 108,
      34, 58, 110, 117, 108, 108, 125>>

\* b'{"function_call":"query"}'
B_env_str ==
    <<123, 34, 102, 117, 110, 99, 116, 105, 111, 110, 95, 99, 97, 108, 108,
      34, 58, 34, 113, 117, 101, 114, 121, 34, 125>>

\* b'{"id":1,"function_call":{"parameters":{"q":"a\\"b"}}}'
B_env_extra ==
    <<123, 34, 105, 100, 34, 58, 49, 44, 34, 102, 117, 110, 99, 116, 105,
      111, 110, 95, 99, 97, 108, 108, 34, 58, 123, 34, 112, 97, 114, 97,
      109, 101, 116, 101, 114, 115, 34, 58, 123, 34, 113, 34, 58, 34, 97,
      92, 34, 98, 34, 125, 125, 125>>

\* ---- upstream response bodies (byte sequences) ----
\* b'{"rows":[]}'
R_rows ==
    <<123, 34, 114, 111, 119, 115, 34, 58, 91, 93, 125>>

\* b'{"error":"bad sql","status":400}'
R_err_obj ==
    <<123, 34, 101, 114, 114, 111, 114, 34, 58, 34, 98, 97, 100, 32, 115,
      113, 108, 34, 44, 34, 115, 116, 97, 116, 117, 115, 34, 58, 52, 48,
      48, 125>>

\* b'[1]'
R_arr ==
    <<91, 49, 93>>

\* b'7'
R_num ==
    <<55>>

\* b'not json'
R_text ==
    <<110, 111, 116, 32, 106, 115, 111, 110>>

\* b''
R_empty ==
    <<>>

\* b'\x80\x80\x80\x80'
R_bad_utf8 ==
    <<128, 128, 128, 128>>

\* ---- bounds ----
\* Number of handler invocations the host can run at once.
NumProcs == 2

Procs == 1..NumProcs

\* ---- bytes <-> str: body_bytes.decode('utf-8') and httpx's str content ----

\* Length of the well-formed UTF-8 sequence starting at b[i], 0 when there is
\* none (CPython's strict decoder: no overlong forms, no surrogates, <= U+10FFFF).
Utf8SeqLen(b, i) ==
    LET b0 == b[i]
        Cont(k) == i + k <= Len(b) /\ b[i + k] \in 128..191
    IN  IF b0 < 128 THEN 1
        ELSE IF b0 \in 194..223 /\ Cont(1) THEN 2
        ELSE IF /\ b0 \in 224..239 /\ Cont(1) /\ Cont(2)
                /\ (b0 = 224 => b[i + 1] >= 160)
                /\ (b0 = 237 => b[i + 1] <= 159) THEN 3
        ELSE IF /\ b0 \in 240..244 /\ Cont(1) /\ Cont(2) /\ Cont(3)
                /\ (b0 = 240 => b[i + 1] >= 144)
                /\ (b0 = 244 => b[i + 1] <= 143) THEN 4
        ELSE 0

Utf8CodePoint(b, i, n) ==
    IF n = 1 THEN b[i]
    ELSE IF n = 2 THEN (b[i] - 192) * 64 + (b[i + 1] - 128)
    ELSE IF n = 3 THEN (b[i] - 224) * 4096 + (b[i + 1] - 128) * 64 + (b[i + 2] - 128)
    ELSE (b[i] - 240) * 262144 + (b[i + 1] - 128) * 4096
         + (b[i + 2] - 128) * 64 + (b[i + 3] - 128)

\* The least element of a non-empty set of integers.
Least(S) == CHOOSE x \in S : \A y \in S : x <= y

\* The first index >= i of a byte >= 128, Len(b) + 1 when there is none (the
\* decoder copies a run of ASCII bytes in one go).
AsciiRunEnd(b, i) ==
    IF \E j \in i..Len(b) : b[j] >= 128
    THEN Least({j \in i..Len(b) : b[j] >= 128})
    ELSE Len(b) + 1

RECURSIVE Utf8DecodeFrom(_, _, _)

\* The decoder at the non-ASCII byte b[i]: n is the length of the sequence there.
Utf8DecodeStep(b, i, acc, n) ==
    IF n = 0 THEN [ok |-> FALSE, str |-> <<>>]
    ELSE Utf8DecodeFrom(b, i + n, Append(acc, Utf8CodePoint(b, i, n)))

\* The decoder after the ASCII run b[i..j-1].
Utf8DecodeRun(b, i, acc, j) ==
    IF j > Len(b) THEN [ok |-> TRUE, str |-> acc \o SubSeq(b, i, Len(b))]
    ELSE Utf8DecodeStep(b, j, acc \o SubSeq(b, i, j - 1), Utf8SeqLen(b, j))

Utf8DecodeFrom(b, i, acc) == Utf8DecodeRun(b, i, acc, AsciiRunEnd(b, i))

\* bytes.decode('utf-8'): ok = FALSE stands for UnicodeDecodeError.
Utf8Decode(b) == Utf8DecodeFrom(b, 1, <<>>)

Utf8EncodeChar(c) ==
    IF c < 128 THEN <<c>>
    ELSE IF c < 2048 THEN <<192 + (c \div 64), 128 + (c % 64)>>
    ELSE IF c < 65536 THEN <<224 + (c \div 4096), 128 + ((c \div 64) % 64), 128 + (c % 64)>>
    ELSE <<240 + (c \div 262144), 128 + ((c \div 4096) % 64),
           128 + ((c \div 64) % 64), 128 + (c % 64)>>

RECURSIVE Utf8EncodeFrom(_, _, _)

\* The encoder after the ASCII run s[i..j-1] (AsciiRunEnd reads code points
\* as it reads bytes).
Utf8EncodeRun(s, i, acc, j) ==
    IF j > Len(s) THEN [ok |-> TRUE, bytes |-> acc \o SubSeq(s, i, Len(s))]
    ELSE IF s[j] \in 55296..57343 THEN [ok |-> FALSE, bytes |-> <<>>]
    ELSE Utf8EncodeFrom(s, j + 1, acc \o SubSeq(s, i, j - 1) \o Utf8EncodeChar(s[j]))

Utf8EncodeFrom(s, i, acc) == Utf8EncodeRun(s, i, acc, AsciiRunEnd(s, i))

\* str.encode('utf-8'), which httpx applies to a str content: ok = FALSE
\* stands for UnicodeEncodeError (a lone surrogate).
Utf8Encode(s) == Utf8EncodeFrom(s, 1, <<>>)

\* ---- dict helpers (a dict is a sequence of <<key, value>> pairs) ----

DictHas(d, k) == \E i \in 1..Len(d) : d[i][1] = k

DictGet(d, k) == d[CHOOSE i \in 1..Len(d) : d[i][1] = k][2]

\* d[k] = v: an existing key keeps its position, a new one is appended.
DictSet(d, k, v) ==
    IF DictHas(d, k)
    THEN [i \in 1..Len(d) |-> IF d[i][1] = k THEN <<k, v>> ELSE d[i]]
    ELSE Append(d, <<k, v>>)

\* ---- json.loads ----

JNull == <<"null", <<>>>>
JBool(b) == <<"bool", <<IF b THEN 1 ELSE 0>>>>
JInt(n) == <<"int", <<n>>>>
JStr(s) == <<"str", s>>
JArr(a) == <<"arr", a>>
JObj(d) == <<"obj", d>>

ScanFail == [ok |-> FALSE, val |-> JNull, end |-> 0]
ScanOk(v, e) == [ok |-> TRUE, val |-> v, end |-> e]

IsDigit(c) == c \in 48..57

HexVal(c) ==
    IF c \in 48..57 THEN c - 48
    ELSE IF c \in 97..102 THEN c - 87
    ELSE IF c \in 65..70 THEN c - 55
    ELSE -1

\* _decode_uXXXX: the value of the four hex digits at s[i..i+3], -1 if not four.
DecodeU(s, i) ==
    IF i + 3 <= Len(s) /\ \A k \in 0..3 : HexVal(s[i + k]) >= 0
    THEN HexVal(s[i]) * 4096 + HexVal(s[i + 1]) * 256
         + HexVal(s[i + 2]) * 16 + HexVal(s[i + 3])
    ELSE -1

\* The character a one-letter escape stands for, -1 for an invalid escape.
Unescape(c) ==
    CASE c = 34 -> 34  [] c = 92 -> 92  [] c = 47 -> 47
      [] c = 98 -> 8   [] c = 102 -> 12 [] c = 110 -> 10
      [] c = 114 -> 13 [] c = 116 -> 9  [] OTHER -> -1

RECURSIVE SkipWS(_, _)
SkipWS(s, i) ==
    IF i <= Len(s) /\ s[i] \in {32, 9, 10, 13} THEN SkipWS(s, i + 1) ELSE i

\* STRINGCHUNK: the first index >= i of a quote, a backslash or a control
\* character, Len(s) + 1 when there is none.
ChunkEnd(s, i) ==
    IF \E j \in i..Len(s) : s[j] = 34 \/ s[j] = 92 \/ s[j] < 32
    THEN Least({j \in i..Len(s) : s[j] = 34 \/ s[j] = 92 \/ s[j] < 32})
    ELSE Len(s) + 1

RECURSIVE ScanString(_, _, _)

\* scanstring at the \u escape s[i..i+1]: u is the value of its four digits.
ScanStringU(s, i, acc, u) ==
    IF u < 0 THEN ScanFail
    ELSE IF /\ u \in 55296..56319
            /\ i + 7 <= Len(s) /\ s[i + 6] = 92 /\ s[i + 7] = 117
            /\ DecodeU(s, i + 8) \in 56320..57343
         THEN ScanString(s, i + 12, Append(acc,
                  65536 + (u - 55296) * 1024 + (DecodeU(s, i + 8) - 56320)))
    ELSE ScanString(s, i + 6, Append(acc, u))

\* scanstring after the chunk s[i..j-1]: s[j] ends the chunk.
ScanStringChunk(s, i, acc, j) ==
    IF j > Len(s) THEN ScanFail
    ELSE IF s[j] = 34 THEN ScanOk(JStr(acc \o SubSeq(s, i, j - 1)), j + 1)
    ELSE IF s[j] < 32 THEN ScanFail
    ELSE IF j + 1 > Len(s) THEN ScanFail
    ELSE IF s[j + 1] = 117
         THEN ScanStringU(s, j, acc \o SubSeq(s, i, j - 1), DecodeU(s, j + 2))
    ELSE IF Unescape(s[j + 1]) < 0 THEN ScanFail
    ELSE ScanString(s, j + 2, Append(acc \o SubSeq(s, i, j - 1), Unescape(s[j + 1])))

\* scanstring (strict): s[i] is the character after the opening quote.
ScanString(s, i, acc) == ScanStringChunk(s, i, acc, ChunkEnd(s, i))

RECURSIVE ScanDigits(_, _, _)
ScanDigits(s, i, n) ==
    IF i <= Len(s) /\ IsDigit(s[i]) THEN ScanDigits(s, i + 1, n * 10 + (s[i] - 48))
    ELSE [n |-> n, end |-> i]

\* NUMBER_RE, integer part: -?(0|[1-9][0-9]*).
ScanNumber(s, i) ==
    LET neg == s[i] = 45
        j == IF neg THEN i + 1 ELSE i
    IN  IF j > Len(s) \/ ~IsDigit(s[j]) THEN ScanFail
        ELSE IF s[j] = 48 THEN ScanOk(JInt(0), j + 1)
        ELSE LET d == ScanDigits(s, j, 0)
             IN  ScanOk(JInt(IF neg THEN 0 - d.n ELSE d.n), d.end)

IsLiteral(s, i, lit) ==
    i + Len(lit) - 1 <= Len(s) /\ SubSeq(s, i, i + Len(lit) - 1) = lit

RECURSIVE ScanOnce(_, _)
RECURSIVE ScanMembers(_, _, _)
RECURSIVE ScanElements(_, _, _)

\* JSONObject's loop, after a member: s[d] must be '}' or ','.
MemberNext(s, acc, d) ==
    IF d > Len(s) THEN ScanFail
    ELSE IF s[d] = 125 THEN ScanOk(JObj(acc), d + 1)
    ELSE IF s[d] = 44 THEN ScanMembers(s, SkipWS(s, d + 1), acc)
    ELSE ScanFail

\* JSONObject's loop, after the member's value v was scanned.
MemberValue(s, acc, key, v) ==
    IF ~v.ok THEN ScanFail
    ELSE MemberNext(s, DictSet(acc, key, v.val), SkipWS(s, v.end))

\* JSONObject's loop, after the key: s[c] must be ':'.
MemberColon(s, acc, key, c) ==
    IF c > Len(s) \/ s[c] # 58 THEN ScanFail
    ELSE MemberValue(s, acc, key, ScanOnce(s, SkipWS(s, c + 1)))

\* JSONObject's loop, after the key string k was scanned.
MemberKey(s, acc, k) ==
    IF ~k.ok THEN ScanFail ELSE MemberColon(s, acc, k.val[2], SkipWS(s, k.end))

\* JSONObject's loop: s[i] must open the next key.
ScanMembers(s, i, acc) ==
    IF i > Len(s) \/ s[i] # 34 THEN ScanFail
    ELSE MemberKey(s, acc, ScanString(s, i + 1, <<>>))

\* JSONArray's loop, after an element: s[d] must be ']' or ','.
ElementNext(s, acc, d) ==
    IF d > Len(s) THEN ScanFail
    ELSE IF s[d] = 93 THEN ScanOk(JArr(acc), d + 1)
    ELSE IF s[d] = 44 THEN ScanElements(s, SkipWS(s, d + 1), acc)
    ELSE ScanFail

\* JSONArray's loop, after the element v was scanned.
ElementValue(s, acc, v) ==
    IF ~v.ok THEN ScanFail ELSE ElementNext(s, Append(acc, v.val), SkipWS(s, v.end))

\* JSONArray's loop: s[i] must open the next element.
ScanElements(s, i, acc) == ElementValue(s, acc, ScanOnce(s, i))

\* scan_once: the JSON value starting at s[i].
ScanOnce(s, i) ==
    IF i > Len(s) THEN ScanFail
    ELSE IF s[i] = 34 THEN ScanString(s, i + 1, <<>>)
    ELSE IF s[i] = 123
         THEN LET j == SkipWS(s, i + 1)
              IN  IF j <= Len(s) /\ s[j] = 125 THEN ScanOk(JObj(<<>>), j + 1)
                  ELSE ScanMembers(s, j, <<>>)
    ELSE IF s[i] = 91
         THEN LET j == SkipWS(s, i + 1)
              IN  IF j <= Len(s) /\ s[j] = 93 THEN ScanOk(JArr(<<>>), j + 1)
                  ELSE ScanElements(s, j, <<>>)
    ELSE IF IsLiteral(s, i, <<110, 117, 108, 108>>) THEN ScanOk(JNull, i + 4)
    ELSE IF IsLiteral(s, i, <<116, 114, 117, 101>>) THEN ScanOk(JBool(TRUE), i + 4)
    ELSE IF IsLiteral(s, i, <<102, 97, 108, 115, 101>>) THEN ScanOk(JBool(FALSE), i + 5)
    ELSE IF s[i] = 45 \/ IsDigit(s[i]) THEN ScanNumber(s, i)
    ELSE ScanFail

\* json.loads(s) for a str s: ok = FALSE stands for json.JSONDecodeError
\* (no value, or data after the value).
LoadsResult(s, r) ==
    IF r.ok /\ SkipWS(s, r.end) = Len(s) + 1
    THEN [ok |-> TRUE, val |-> r.val]
    ELSE [ok |-> FALSE, val |-> JNull]

json_loads(s) == LoadsResult(s, ScanOnce(s, SkipWS(s, 1)))

\* ---- json.dumps (default separators ', ' and ': ', ensure_ascii) ----

RECURSIVE DecimalDigits(_)
DecimalDigits(n) ==
    IF n < 10 THEN <<48 + n>> ELSE Append(DecimalDigits(n \div 10), 48 + (n % 10))

IntText(n) == IF n < 0 THEN <<45>> \o DecimalDigits(0 - n) ELSE DecimalDigits(n)

HexDigit(d) == IF d < 10 THEN 48 + d ELSE 87 + d

\* \uXXXX, lower-case hex.
EscapeU(c) ==
    <<92, 117, HexDigit(c \div 4096), HexDigit((c \div 256) % 16),
      HexDigit((c \div 16) % 16), HexDigit(c % 16)>>

\* ESCAPE_ASCII: quote, backslash and everything outside ' '..'~'.
EscapeChar(c) ==
    CASE c = 34 -> <<92, 34>>  [] c = 92 -> <<92, 92>>
      [] c = 10 -> <<92, 110>> [] c = 13 -> <<92, 114>>
      [] c = 9 -> <<92, 116>>  [] c = 8 -> <<92, 98>>
      [] c = 12 -> <<92, 102>>
      [] OTHER -> IF c \in 32..126 THEN <<c>>
                  ELSE IF c < 65536 THEN EscapeU(c)
                  ELSE EscapeU(55296 + (((c - 65536) \div 1024) % 1024))
                       \o EscapeU(56320 + ((c - 65536) % 1024))

\* The first index >= i of a character ESCAPE_ASCII matches, Len(s) + 1 when
\* there is none.
PlainRunEnd(s, i) ==
    IF \E j \in i..Len(s) : s[j] = 34 \/ s[j] = 92 \/ s[j] \notin 32..126
    THEN Least({j \in i..Len(s) : s[j] = 34 \/ s[j] = 92 \/ s[j] \notin 32..126})
    ELSE Len(s) + 1

RECURSIVE EscapeFrom(_, _)

\* ESCAPE_ASCII.sub after the unescaped run s[i..j-1].
EscapeRun(s, i, j) ==
    IF j > Len(s) THEN SubSeq(s, i, Len(s))
    ELSE SubSeq(s, i, j - 1) \o EscapeChar(s[j]) \o EscapeFrom(s, j + 1)

EscapeFrom(s, i) == EscapeRun(s, i, PlainRunEnd(s, i))

QuotedText(s) == <<34>> \o EscapeFrom(s, 1) \o <<34>>

RECURSIVE json_dumps(_)
RECURSIVE DumpItems(_, _)
RECURSIVE DumpMembers(_, _)

DumpItems(a, i) ==
    IF i > Len(a) THEN <<>>
    ELSE (IF i > 1 THEN <<44, 32>> ELSE <<>>) \o json_dumps(a[i]) \o DumpItems(a, i + 1)

DumpMembers(d, i) ==
    IF i > Len(d) THEN <<>>
    ELSE (IF i > 1 THEN <<44, 32>> ELSE <<>>) \o QuotedText(d[i][1]) \o <<58, 32>>
         \o json_dumps(d[i][2]) \o DumpMembers(d, i + 1)

json_dumps(v) ==
    CASE v[1] = "null" -> <<110, 117, 108, 108>>
      [] v[1] = "bool" -> IF v[2][1] = 1 THEN <<116, 114, 117, 101>>
                          ELSE <<102, 97, 108, 115, 101>>
      [] v[1] = "int" -> IntText(v[2][1])
      [] v[1] = "str" -> QuotedText(v[2])
      [] v[1] = "arr" -> <<91>> \o DumpItems(v[2], 1) \o <<93>>
      [] v[1] = "obj" -> <<123>> \o DumpMembers(v[2], 1) \o <<125>>

\* ---- exceptions ----

Exc(cls, msg) == [cls |-> cls, msg |-> msg]

\* The classes an exception of class cls is an instance of (its MRO).
Mro(cls) ==
    CASE cls = "JSONDecodeError" ->
             {"JSONDecodeError", "ValueError", "Exception", "BaseException"}
      [] cls = "UnicodeDecodeError" ->
             {"UnicodeDecodeError", "UnicodeError", "ValueError", "Exception",
              "BaseException"}
      [] cls = "UnicodeEncodeError" ->
             {"UnicodeEncodeError", "UnicodeError", "ValueError", "Exception",
              "BaseException"}
      [] cls = "TypeError" -> {"TypeError", "Exception", "BaseException"}
      [] cls = "AttributeError" -> {"AttributeError", "Exception", "BaseException"}
      [] cls = "ConnectTimeout" ->
             {"ConnectTimeout", "TimeoutException", "TransportError", "RequestError",
              "HTTPError", "Exception", "BaseException"}
      [] cls = "ReadTimeout" ->
             {"ReadTimeout", "TimeoutException", "TransportError", "RequestError",
              "HTTPError", "Exception", "BaseException"}
      [] cls = "ConnectError" ->
             {"ConnectError", "NetworkError", "TransportError", "RequestError",
              "HTTPError", "Exception", "BaseException"}
      [] cls = "RemoteProtocolError" ->
             {"RemoteProtocolError", "ProtocolError", "TransportError",
              "RequestError", "HTTPError", "Exception", "BaseException"}

IsInstance(exc, cls) == cls \in Mro(exc.cls)

\* ---- the handler's pure steps ----

Raised(exc) ==
    [raised |-> TRUE, exc |-> exc, forward_body |-> <<>>, construction |-> "none",
     warned |-> FALSE]

Built(forward_body, construction, warned) ==
    [raised |-> FALSE, exc |-> Exc("none", <<>>), forward_body |-> forward_body,
     construction |-> construction, warned |-> warned]

\* Python truth value of a JSON value (line 75, `if function_name and ...`).
Truthy(v) ==
    CASE v[1] = "null" -> FALSE
      [] v[1] = "bool" -> v[2][1] = 1
      [] v[1] = "int" -> v[2][1] # 0
      [] OTHER -> Len(v[2]) > 0

\* Whether sub occurs in s as a contiguous run (str.__contains__).
IsSubstring(sub, s) ==
    \E i \in 1..(Len(s) - Len(sub) + 1) : SubSeq(s, i, i + Len(sub) - 1) = sub

\* `"function_call" in body_json` (line 69): a key test on a dict, an element
\* test on a list, a substring test on a str, TypeError on anything else.
ContainsFunctionCall(body_json) ==
    CASE body_json[1] = "obj" -> [raised |-> FALSE, val |-> DictHas(body_json[2], K_function_call)]
      [] body_json[1] = "arr" ->
             [raised |-> FALSE,
              val |-> \E i \in 1..Len(body_json[2]) : body_json[2][i] = JStr(K_function_call)]
      [] body_json[1] = "str" ->
             [raised |-> FALSE, val |-> IsSubstring(K_function_call, body_json[2])]
      [] OTHER -> [raised |-> TRUE, val |-> FALSE]

\* Lines 70-80, reached when `"function_call" in body_json` is true.
UnwrapEnvelope(endpoint, body_json) ==
    IF body_json[1] # "obj"
    THEN Raised(Exc("TypeError", Msg_index))                      \* line 70
    ELSE LET function_call == DictGet(body_json[2], K_function_call)
         IN  IF function_call[1] # "obj"
             THEN Raised(Exc("AttributeError", Msg_attr))          \* line 71
             ELSE LET function_name ==
                          IF DictHas(function_call[2], K_name)
                          THEN DictGet(function_call[2], K_name) ELSE JNull
                      parameters ==
                          IF DictHas(function_call[2], K_parameters)
                          THEN DictGet(function_call[2], K_parameters) ELSE JObj(<<>>)
                      warned == Truthy(function_name) /\ function_name # JStr(endpoint)
                  IN  Built(json_dumps(parameters), "parameters", warned)

\* Lines 56-88: from the raw body to forward_body, or to the exception that
\* leaves the inner try (only json.JSONDecodeError is caught there).
\* Lines 69-84: c is the outcome of `"function_call" in body_json`.
BranchOnEnvelope(endpoint, body_str, body_json, c) ==
    IF c.raised THEN Raised(Exc("TypeError", Msg_type))             \* line 69
    ELSE IF c.val THEN UnwrapEnvelope(endpoint, body_json)          \* lines 70-80
    ELSE Built(body_str, "as_is", FALSE)                            \* lines 81-84

\* Lines 65-88: j is the outcome of json.loads(body_str).
TransformParsed(endpoint, body_str, j) ==
    IF ~j.ok THEN Built(body_str, "as_is", FALSE)                   \* lines 85-88
    ELSE BranchOnEnvelope(endpoint, body_str, j.val, ContainsFunctionCall(j.val))

\* Lines 57-88: d is the outcome of body_bytes.decode('utf-8').
TransformDecoded(endpoint, d) ==
    IF ~d.ok THEN Raised(Exc("UnicodeDecodeError", Msg_decode))     \* line 57
    ELSE TransformParsed(endpoint, d.str, json_loads(d.str))

BuildForwardBody(endpoint, body_bytes) ==
    TransformDecoded(endpoint, Utf8Decode(body_bytes))

\* Variant of ErrorResult whose status reflects the failure kind.
ErrorResultByKind(exc) ==
    JObj(<< <<K_error, JStr(exc.msg)>>,
            <<K_status, JInt(IF IsInstance(exc, "TimeoutException") THEN 504
                             ELSE IF IsInstance(exc, "HTTPError") THEN 502
                             ELSE 500)>> >>)

\* {"error": error_msg, "status": 500} (line 115).
ErrorResult(exc) ==
    JObj(<< <<K_error, JStr(exc.msg)>>, <<K_status, JInt(500)>> >>)

\* {"response": response_text, "status": response_status, "error": None} (line 108).
NonJsonResult(response_text, response_status) ==
    JObj(<< <<K_response, JStr(response_text)>>, <<K_status, JInt(response_status)>>,
            <<K_error, JNull>> >>)

\* Variant of OuterCatches that catches the outbound call's errors only.
OuterCatchesHttpOnly(exc) == IsInstance(exc, "HTTPError")

\* `except Exception as e` (line 112).
OuterCatches(exc) == IsInstance(exc, "Exception")

\* `except json.JSONDecodeError` (lines 85 and 105).
InnerCatches(exc) == IsInstance(exc, "JSONDecodeError")

\* response.json(): json.loads of the content bytes, which decodes them as
\* UTF-8 first (no body below carries a BOM or a UTF-16/32 pattern).
ResponseJsonParsed(j) ==
    IF ~j.ok THEN [raised |-> TRUE, exc |-> Exc("JSONDecodeError", <<>>), val |-> JNull]
    ELSE [raised |-> FALSE, exc |-> Exc("none", <<>>), val |-> j.val]

ResponseJsonDecoded(d) ==
    IF ~d.ok
    THEN [raised |-> TRUE, exc |-> Exc("UnicodeDecodeError", Msg_decode), val |-> JNull]
    ELSE ResponseJsonParsed(json_loads(d.str))

ResponseJson(content) == ResponseJsonDecoded(Utf8Decode(content))

\* response.text of a response that declares no charset, for decodable content.
ResponseText(content) == Utf8Decode(content).str

\* Lines 101-111: the value returned for a completed outbound call, or the
\* exception that leaves the inner try.
\* Variant of TranslateParsed that adds the upstream status to a JSON object.
TranslateParsedWithStatus(resp, r) ==
    IF ~r.raised
    THEN [raised |-> FALSE, exc |-> r.exc,
          val |-> IF r.val[1] = "obj"
                  THEN JObj(DictSet(r.val[2], K_status, JInt(resp.status_code)))
                  ELSE r.val]
    ELSE IF InnerCatches(r.exc)
         THEN [raised |-> FALSE, exc |-> Exc("none", <<>>),
               val |-> NonJsonResult(ResponseText(resp.content), resp.status_code)]
    ELSE [raised |-> TRUE, exc |-> r.exc, val |-> JNull]

\* Lines 101-111: r is the outcome of response.json().
TranslateParsed(resp, r) ==
    IF ~r.raised THEN [raised |-> FALSE, exc |-> r.exc, val |-> r.val]   \* line 111
    ELSE IF InnerCatches(r.exc)                                         \* line 105
         THEN [raised |-> FALSE, exc |-> Exc("none", <<>>),
               val |-> NonJsonResult(ResponseText(resp.content), resp.status_code)]
    ELSE [raised |-> TRUE, exc |-> r.exc, val |-> JNull]

TranslateResponse(resp) == TranslateParsed(resp, ResponseJson(resp.content))

\* f"{UPSTREAM}/{endpoint}" (line 93).
OutboundUrl(upstream, endpoint) == upstream \o S_slash \o endpoint

\* ---- inputs ----

Endpoints == {Ep_query, Ep_list_tables, Ep_nested}

Bodies ==
    {B_empty, B_text, B_bad_utf8, B_text_utf8, B_trailing_comma, B_obj, B_obj_ws,
     B_arr, B_str, B_num, B_true, B_null, B_arr_fc, B_str_fc, B_env_query,
     B_env_other, B_env_list, B_env_noparams, B_env_empty, B_env_null_params,
     B_env_arr_params, B_env_num, B_env_null, B_env_str, B_env_extra}

StatusCodes == {200, 404, 503}

ResponseBodies == {R_rows, R_err_obj, R_arr, R_num, R_text, R_empty, R_bad_utf8}

Responses == [status_code : StatusCodes, content : ResponseBodies]

\* What client.post can raise instead of returning a response.
TransportFailures ==
    {Exc("ConnectTimeout", Msg_timeout), Exc("ReadTimeout", Msg_timeout),
     Exc("ConnectError", Msg_connect), Exc("RemoteProtocolError", Msg_protocol)}

\* The inputs of the concurrent specification.
ConcEndpoints == {Ep_query, Ep_list_tables}

ConcBodies == {B_text, B_env_list, B_bad_utf8}

ConcResponses ==
    {[status_code |-> 200, content |-> R_rows], [status_code |-> 404, content |-> R_text]}

ConcFailures == {Exc("ConnectError", Msg_connect)}

\* ---- state ----

VARIABLES
    UPSTREAM,       \* module global (line 45)
    AUTH,           \* module global (line 46)
    pc,             \* per invocation: where the handler is
    endpoint,       \* per invocation: the path parameter
    body_bytes,     \* per invocation: the inbound body
    forward_body,   \* per invocation: <<>> while unbound, else <<the str>>
    construction,   \* per invocation: the branch that bound forward_body
    warned,         \* per invocation: whether line 76 printed its warning
    sent,           \* per invocation: the outbound requests it has issued
    response,       \* per invocation: <<>> or <<the upstream response>>
    exc,            \* per invocation: <<>> or <<the exception bound at line 112>>
    result          \* per invocation: <<>> or <<the value returned>>

vars == <<UPSTREAM, AUTH, pc, endpoint, body_bytes, forward_body, construction,
          warned, sent, response, exc, result>>

config == <<UPSTREAM, AUTH>>

\* The state once the module is loaded: line 45 rebinds UPSTREAM (first bound
\* at line 26) to its default, UPSTREAM_URL being unset, and no request is in
\* progress.
Init ==
    /\ UPSTREAM = UPSTREAM_default
    /\ AUTH = <<AUTH_user, AUTH_password>>
    /\ pc = [p \in Procs |-> "idle"]
    /\ endpoint = [p \in Procs |-> <<>>]
    /\ body_bytes = [p \in Procs |-> <<>>]
    /\ forward_body = [p \in Procs |-> <<>>]
    /\ construction = [p \in Procs |-> "none"]
    /\ warned = [p \in Procs |-> FALSE]
    /\ sent = [p \in Procs |-> <<>>]
    /\ response = [p \in Procs |-> <<>>]
    /\ exc = [p \in Procs |-> <<>>]
    /\ result = [p \in Procs |-> <<>>]

\* ---- the handler ----

\* Lines 112-115: the exception e leaves the outer try of invocation p.
Except(p, e) ==
    IF OuterCatches(e)
    THEN /\ exc' = [exc EXCEPT ![p] = <<e>>]
         /\ result' = [result EXCEPT ![p] = <<ErrorResult(e)>>]
         /\ pc' = [pc EXCEPT ![p] = "done"]
    ELSE /\ exc' = [exc EXCEPT ![p] = <<e>>]
         /\ result' = result
         /\ pc' = [pc EXCEPT ![p] = "escaped"]

\* POST /proxy/{endpoint} is routed to a free invocation (lines 48-49).
Receive(p, e, b) ==
    /\ pc[p] = "idle"
    /\ pc' = [pc EXCEPT ![p] = "transform"]
    /\ endpoint' = [endpoint EXCEPT ![p] = e]
    /\ body_bytes' = [body_bytes EXCEPT ![p] = b]
    /\ UNCHANGED <<config, forward_body, construction, warned, sent, response, exc, result>>

\* Lines 56-88, and 112-115 when they raise.
TransformTo(p, t) ==
    IF t.raised
    THEN /\ Except(p, t.exc)
         /\ UNCHANGED <<forward_body, construction, warned>>
    ELSE /\ forward_body' = [forward_body EXCEPT ![p] = <<t.forward_body>>]
         /\ construction' = [construction EXCEPT ![p] = t.construction]
         /\ warned' = [warned EXCEPT ![p] = t.warned]
         /\ pc' = [pc EXCEPT ![p] = "post"]
         /\ UNCHANGED <<exc, result>>

Transform(p) ==
    /\ pc[p] = "transform"
    /\ TransformTo(p, BuildForwardBody(endpoint[p], body_bytes[p]))
    /\ UNCHANGED <<config, endpoint, body_bytes, sent, response>>

\* Lines 91-98: the request client.post issues.
OutboundRequest(p) ==
    [method |-> "POST",
     url |-> OutboundUrl(UPSTREAM, endpoint[p]),
     content |-> Utf8Encode(forward_body[p][1]).bytes,
     headers |-> <<H_content_type, H_application_json>>,
     auth |-> AUTH,
     timeout |-> 30]

\* Variant of Post in which forward_body is one module-level name that every
\* invocation binds: the content sent is that of whichever invocation bound it last.
PostShared(p) ==
    /\ pc[p] = "post"
    /\ \E q \in Procs :
        /\ forward_body[q] # <<>>
        /\ sent' = [sent EXCEPT ![p] = Append(sent[p],
                       [OutboundRequest(p) EXCEPT
                           !.content = Utf8Encode(forward_body[q][1]).bytes])]
    /\ pc' = [pc EXCEPT ![p] = "await"]
    /\ UNCHANGED <<config, endpoint, body_bytes, forward_body, construction, warned,
                   response, exc, result>>

\* Lines 91-98: the outbound POST goes out and the handler awaits its outcome.
Post(p) ==
    /\ pc[p] = "post"
    /\ IF Utf8Encode(forward_body[p][1]).ok
       THEN /\ sent' = [sent EXCEPT ![p] = Append(sent[p], OutboundRequest(p))]
            /\ pc' = [pc EXCEPT ![p] = "await"]
            /\ UNCHANGED <<exc, result>>
       ELSE /\ Except(p, Exc("UnicodeEncodeError", <<>>))
            /\ UNCHANGED sent
    /\ UNCHANGED <<config, endpoint, body_bytes, forward_body, construction, warned, response>>

\* client.post returns resp; lines 101-111 translate it (112-115 when they raise).
ReturnOrRaise(p, t) ==
    IF t.raised
    THEN Except(p, t.exc)
    ELSE /\ result' = [result EXCEPT ![p] = <<t.val>>]
         /\ pc' = [pc EXCEPT ![p] = "done"]
         /\ UNCHANGED exc

UpstreamResponds(p, resp) ==
    /\ pc[p] = "await"
    /\ response' = [response EXCEPT ![p] = <<resp>>]
    /\ ReturnOrRaise(p, TranslateResponse(resp))
    /\ UNCHANGED <<config, endpoint, body_bytes, forward_body, construction, warned, sent>>

\* client.post raises e (timeout after 30 s, connection error, ...): lines 112-115.
UpstreamFails(p, e) ==
    /\ pc[p] = "await"
    /\ Except(p, e)
    /\ UNCHANGED <<config, endpoint, body_bytes, forward_body, construction, warned,
                   sent, response>>

\* The handler has returned; the invocation and its locals are gone.
Return(p) ==
    /\ pc[p] = "done"
    /\ pc' = [pc EXCEPT ![p] = "idle"]
    /\ endpoint' = [endpoint EXCEPT ![p] = <<>>]
    /\ body_bytes' = [body_bytes EXCEPT ![p] = <<>>]
    /\ forward_body' = [forward_body EXCEPT ![p] = <<>>]
    /\ construction' = [construction EXCEPT ![p] = "none"]
    /\ warned' = [warned EXCEPT ![p] = FALSE]
    /\ sent' = [sent EXCEPT ![p] = <<>>]
    /\ response' = [response EXCEPT ![p] = <<>>]
    /\ exc' = [exc EXCEPT ![p] = <<>>]
    /\ result' = [result EXCEPT ![p] = <<>>]
    /\ UNCHANGED config

\* ---- specifications ----

\* Requests served one after another, over every endpoint, body and upstream
\* behaviour of the input sets.
Arrive(p, e, b) ==
    /\ \A q \in Procs : pc[q] = "idle"
    /\ Receive(p, e, b)

Next ==
    \E p \in Procs :
        \/ \E e \in Endpoints, b \in Bodies : Arrive(p, e, b)
        \/ Transform(p)
        \/ Post(p)
        \/ \E resp \in Responses : UpstreamResponds(p, resp)
        \/ \E e \in TransportFailures : UpstreamFails(p, e)
        \/ Return(p)

Spec == Init /\ [][Next]_vars

\* Requests that overlap: every invocation runs while the others are in flight.
ConcNext ==
    \E p \in Procs :
        \/ \E e \in ConcEndpoints, b \in ConcBodies : Receive(p, e, b)
        \/ Transform(p)
        \/ Post(p)
        \/ \E resp \in ConcResponses : UpstreamResponds(p, resp)
        \/ \E e \in ConcFailures : UpstreamFails(p, e)
        \/ Return(p)

ConcSpec == Init /\ [][ConcNext]_vars

\* ---- what the claims speak of ----

\* The body parses as JSON: it decodes as UTF-8 and json.loads accepts the text.
IsJsonText(d) == d.ok /\ json_loads(d.str).ok

IsJsonBody(b) == IsJsonText(Utf8Decode(b))

\* The JSON value of a body that parses.
BodyJson(b) == json_loads(Utf8Decode(b).str).val

\* The top level of v is an object with the key function_call.
HasFunctionCallKey(v) == v[1] = "obj" /\ DictHas(v[2], K_function_call)

\* The envelope's parameters, an empty mapping when there are none.
ParametersOf(v) ==
    LET function_call == DictGet(v[2], K_function_call)
    IN  IF function_call[1] = "obj" /\ DictHas(function_call[2], K_parameters)
        THEN DictGet(function_call[2], K_parameters)
        ELSE JObj(<<>>)

\* Invocation p has returned a value to its caller.
Returned(p) == pc[p] = "done"

\* Invocation p issued exactly one outbound POST, with this content.
PostedExactly(p, content) ==
    /\ Len(sent[p]) = 1
    /\ sent[p][1].method = "POST"
    /\ sent[p][1].content = content

\* The outbound call of invocation p failed: the POST went out and client.post
\* raised instead of returning a response.
OutboundFailed(p) ==
    /\ pc[p] \in {"done", "escaped"}
    /\ Len(sent[p]) = 1
    /\ response[p] = <<>>

\* The outbound call of invocation p completed with a response.
OutboundCompleted(p) == pc[p] \in {"done", "escaped"} /\ response[p] # <<>>

RECURSIVE IsJsonValue(_)
\* v is a well-formed JSON value.
IsJsonValue(v) ==
    /\ Len(v) = 2
    /\ CASE v[1] = "null" -> v[2] = <<>>
         [] v[1] = "bool" -> Len(v[2]) = 1 /\ v[2][1] \in {0, 1}
         [] v[1] = "int" -> Len(v[2]) = 1 /\ v[2][1] \in Int
         [] v[1] = "str" -> \A i \in 1..Len(v[2]) : v[2][i] \in 0..1114111
         [] v[1] = "arr" -> \A i \in 1..Len(v[2]) : IsJsonValue(v[2][i])
         [] v[1] = "obj" ->
                /\ \A i \in 1..Len(v[2]) : IsJsonValue(JStr(v[2][i][1])) /\ IsJsonValue(v[2][i][2])
                /\ \A i, j \in 1..Len(v[2]) : v[2][i][1] = v[2][j][1] => i = j
         [] OTHER -> FALSE

\* v is the object {"error": <a string>, "status": 500}, those two fields only.
IsErrorObject(v) ==
    /\ v[1] = "obj" /\ Len(v[2]) = 2
    /\ v[2][1][1] = K_error /\ v[2][1][2][1] = "str"
    /\ v[2][2] = <<K_status, JInt(500)>>

\* v is the object {"response": <a string>, "status": <an integer>, "error": null}.
IsNonJsonObject(v) ==
    /\ v[1] = "obj" /\ Len(v[2]) = 3
    /\ v[2][1][1] = K_response /\ v[2][1][2][1] = "str"
    /\ v[2][2][1] = K_status /\ v[2][2][2][1] = "int"
    /\ v[2][3] = <<K_error, JNull>>

\* ---- claims ----

\* C1: every inbound body that is not valid JSON (the empty body and bytes
\* that are not valid UTF-8 included) is sent upstream in one outbound POST
\* whose body equals the inbound body byte for byte.
C1_NonJsonBodySentVerbatim ==
    \A p \in Procs :
        (Returned(p) /\ ~IsJsonBody(body_bytes[p])) => PostedExactly(p, body_bytes[p])

\* C2: every inbound body that parses as JSON and has no function_call key at
\* top level, whatever its top-level value, is sent upstream unchanged in one
\* outbound POST.
C2_JsonWithoutEnvelopeSentVerbatim ==
    \A p \in Procs :
        (/\ Returned(p)
         /\ IsJsonBody(body_bytes[p])
         /\ ~HasFunctionCallKey(BodyJson(body_bytes[p])))
        => PostedExactly(p, body_bytes[p])

\* C3: for every inbound JSON body whose top level has the key function_call,
\* the body sent upstream is the JSON serialization of its parameters (of an
\* empty mapping when absent), to the URL of the endpoint, whatever name says.
C3_EnvelopeSendsParameters ==
    \A p \in Procs :
        (/\ Returned(p)
         /\ IsJsonBody(body_bytes[p])
         /\ HasFunctionCallKey(BodyJson(body_bytes[p])))
        => /\ PostedExactly(p,
                  Utf8Encode(json_dumps(ParametersOf(BodyJson(body_bytes[p])))).bytes)
           /\ sent[p][1].url = OutboundUrl(UPSTREAM, endpoint[p])

\* C4: whenever the outbound call fails, whatever the failure, the handler
\* returns exactly {"error": <the exception's message>, "status": 500} and
\* the exception does not leave the handler.
C4_OutboundFailureReturnsError500 ==
    \A p \in Procs :
        OutboundFailed(p) =>
            /\ pc[p] = "done"
            /\ exc[p] # <<>>
            /\ result[p] = << <<"obj", << <<K_error, <<"str", exc[p][1].msg>>>>,
                                         <<K_status, <<"int", <<500>>>>>> >>>> >>

C4_Witness ==
    \E p \in Procs :
        /\ OutboundFailed(p)
        /\ exc[p] # <<>>
        /\ exc[p][1].cls = "ReadTimeout"
        /\ result[p] # <<>>

\* C5: whenever the outbound call completes and the response body does not
\* parse as JSON, the handler returns {"response": <the response text>,
\* "status": <the upstream status code>, "error": null}.
C5_NonJsonResponseWrapped ==
    \A p \in Procs :
        (OutboundCompleted(p) /\ ~IsJsonBody(response[p][1].content))
        => /\ Returned(p)
           /\ IsNonJsonObject(result[p][1])
           /\ result[p][1][2][2][2] = JInt(response[p][1].status_code)
           /\ Utf8Decode(response[p][1].content).ok
                  => result[p][1][2][1][2] = JStr(Utf8Decode(response[p][1].content).str)

\* C6: whenever the outbound call completes and the response body parses as
\* JSON, the handler returns exactly the parsed value, whatever the status
\* code: {"rows": []} comes back as {"rows": []}.
C6_JsonResponsePassedThrough ==
    \A p \in Procs :
        (OutboundCompleted(p) /\ IsJsonBody(response[p][1].content))
        => /\ Returned(p)
           /\ result[p] = <<BodyJson(response[p][1].content)>>
           /\ response[p][1].content = R_rows
                  => result[p][1] = <<"obj", << <<<<114, 111, 119, 115>>, <<"arr", <<>>>>>> >>>>

C6_Witness ==
    \E p \in Procs :
        /\ Returned(p)
        /\ response[p] # <<>>
        /\ response[p][1].content = R_err_obj
        /\ response[p][1].status_code = 404
        /\ result[p][1][1] = "obj"

C8_EveryRequestPostsOnce ==
    \A p \in Procs : Returned(p) => Len(sent[p]) = 1

\* C9: the upstream base URL and the credentials keep their startup values,
\* and what each invocation sends and returns is a function of its own
\* endpoint, body and upstream outcome, whatever the other invocations do.
C9_InvocationsIndependent ==
    /\ UPSTREAM = UPSTREAM_default
    /\ AUTH = <<AUTH_user, AUTH_password>>
    /\ \A p \in Procs :
        /\ forward_body[p] # <<>> =>
               forward_body[p][1] = BuildForwardBody(endpoint[p], body_bytes[p]).forward_body
        /\ (forward_body[p] # <<>> /\ body_bytes[p] = B_env_list) =>
               forward_body[p][1] = <<123, 125>>
        /\ \A i \in 1..Len(sent[p]) :
               /\ sent[p][i].url = UPSTREAM_default \o <<47>> \o endpoint[p]
               /\ sent[p][i].auth = <<AUTH_user, AUTH_password>>
               /\ sent[p][i].content = Utf8Encode(forward_body[p][1]).bytes
        /\ (Returned(p) /\ response[p] # <<>>) =>
               result[p] = <<TranslateResponse(response[p][1]).val>>
        /\ (Returned(p) /\ response[p] = <<>>) =>
               (exc[p] # <<>> /\ result[p] = <<ErrorResult(exc[p][1])>>)

C9_Witness ==
    \E p, q \in Procs :
        /\ p # q
        /\ pc[p] = "await" /\ body_bytes[p] = B_env_list /\ endpoint[p] = Ep_query
        /\ Returned(q) /\ body_bytes[q] = B_text /\ endpoint[q] = Ep_list_tables
        /\ response[q] # <<>>

\* C10: for every request exactly one of the two payload constructions is
\* chosen, never neither, and the payload built is the content sent.
C10_OneConstructionThenSent ==
    \A p \in Procs :
        Returned(p) =>
            /\ construction[p] \in {"parameters", "as_is"}
            /\ forward_body[p] # <<>>
            /\ PostedExactly(p, Utf8Encode(forward_body[p][1]).bytes)

====
